---- MODULE Spec2Model ----
(***************************************************************************)
(* Field extraction and round-trip regeneration of ZPL label templates     *)
(* (src/src/components/preview.tsx, the current version of the component,  *)
(* lines 793-1335).                                                        *)
(*                                                                         *)
(* A text is a sequence of tokens.  A token is one ZPL command as the      *)
(* regular expressions of the source see it (^FT<x>,<y>  ^FO<x>,<y>        *)
(* ^BE<o>,<h>,<f>,<g>  ^FH  ^FD  ^FS  ^XG  ^MNY  ^XA  ~DG), a comma, a      *)
(* line break, or one character of free text.  Every regular expression    *)
(* is modelled by a matcher over tokens with the same leftmost, lazy,      *)
(* non-overlapping scan as String.prototype.matchAll / replace.            *)
(***************************************************************************)
EXTENDS Integers, Sequences, FiniteSets, TLC

VARIABLES
    raw,              \* text of the file last read (e.target.result), history
    originalContent,  \* useState originalContent
    variables,        \* useState variables
    imageDefinitions, \* useState imageDefinitions
    config,           \* useState config
    timers,           \* the timeouts set with setTimeout and not yet fired or cleared
    timeoutRef,       \* useDebounce: timeoutRef.current, 0 for null
    requests,         \* the fetch calls of renderLabelPreview awaiting their response
    previewUrl,       \* useState previewUrl
    error,            \* useState error
    isLoading,        \* useState isLoading
    downloaded,       \* text of the file last handed to the browser by link.click()
    attempts,         \* number of clicks on the export button, history
    cleaned,          \* cleanZplForDownload: let cleaned
    fileName,         \* useState fileName
    reading           \* the files handed to reader.readAsText whose onload has not run

vars ==
    <<raw, originalContent, variables, imageDefinitions, config, timers, timeoutRef,
      requests, previewUrl, error, isLoading, downloaded, attempts, cleaned,
      fileName, reading>>

(***************************************************************************)
(* Bounds                                                                  *)
(***************************************************************************)
MaxLines == 2

\* Clicks on the download button in one behaviour
MaxAttempts == 1

\* Render requests awaiting their response at one time
MaxInFlight == 2

\* Pieces a text handed to a cleanup step is made of
MaxPieces == 4

(***************************************************************************)
(* Tokens                                                                  *)
(***************************************************************************)
Tok(k) == [k |-> k, x |-> 0, y |-> 0, v |-> ""]
FT(x, y) == [k |-> "FT", x |-> x, y |-> y, v |-> ""]
FO(x, y) == [k |-> "FO", x |-> x, y |-> y, v |-> ""]
T(c) == [k |-> "T", x |-> 0, y |-> 0, v |-> c]
BE == [k |-> "BE", x |-> 0, y |-> 0, v |-> "N"]
FH == Tok("FH")
FD == Tok("FD")
FS == Tok("FS")
XG == Tok("XG")
COMMA == Tok("COMMA")
NL == Tok("NL")
MNY == Tok("MNY")
DG == Tok("DG")
XA == Tok("XA")
XZ == Tok("XZ")
PRB == Tok("PRB")
ID == Tok("ID")

\* Characters of the class [A-Z0-9].
AlnumAtoms == {"A", "B", "P", "Q", "R", "X"}

\* Tokens whose text holds a comma: the lookahead (?=,) stops at the first.
CommaKinds == {"COMMA", "FT", "FO", "BE"}

Min(S) == CHOOSE a \in S : \A b \in S : a <= b
Max(S) == CHOOSE a \in S : \A b \in S : a >= b

\* Least / greatest element of a set of indexes, 0 when there is none.
First(S) == IF S = {} THEN 0 ELSE Min(S)
Last(S) == IF S = {} THEN 0 ELSE Max(S)

\* Index of the first token of s at or after i whose kind is in K, else 0.
FirstAt(s, i, K) == First({j \in i..Len(s) : s[j].k \in K})

\* The fixed accented-character -> escape-code table.
cp850Map ==
    [c \in {"e_acute", "E_acute", "deg"} |->
        CASE c = "e_acute" -> "_82" [] c = "E_acute" -> "_90" [] c = "deg" -> "_f8"]

convertToCP850(text) ==
    [i \in 1..Len(text) |->
        IF text[i].k = "T" /\ text[i].v \in DOMAIN cp850Map
        THEN T(cp850Map[text[i].v])
        ELSE text[i]]

(***************************************************************************)
(* Lines: split('\n') and join('\n')                                       *)
(***************************************************************************)
RECURSIVE SplitFrom(_, _)
RECURSIVE SplitAt(_, _, _)
SplitAt(s, i, n) ==
    IF n = 0 THEN <<SubSeq(s, i, Len(s))>>
    ELSE <<SubSeq(s, i, n - 1)>> \o SplitFrom(s, n + 1)

SplitFrom(s, i) == SplitAt(s, i, FirstAt(s, i, {"NL"}))

Split(s) == SplitFrom(s, 1)

RECURSIVE Join(_)
Join(ls) ==
    IF Len(ls) = 0 THEN <<>>
    ELSE IF Len(ls) = 1 THEN ls[1]
    ELSE ls[1] \o <<NL>> \o Join(Tail(ls))

Includes(line, kind) == \E i \in 1..Len(line) : line[i].k = kind

(***************************************************************************)
(* Content normalizer                                                      *)
(***************************************************************************)
\* lines.findIndex(line => line.includes('^MNY')), 1-based, 0 for -1
FindMny(lines) == First({i \in 1..Len(lines) : Includes(lines[i], "MNY")})

\* lines.filter(line => line.includes('^XG'))
XgLines(lines) == SelectSeq(lines, LAMBDA line : Includes(line, "XG"))

RECURSIVE OtherLinesFrom(_, _, _)
\* lines.filter((line, idx) => idx <= mnyIndex || !line.includes('^XG'))
OtherLinesFrom(lines, mnyIndex, i) ==
    IF i > Len(lines) THEN <<>>
    ELSE (IF i <= mnyIndex \/ ~Includes(lines[i], "XG") THEN <<lines[i]>> ELSE <<>>)
         \o OtherLinesFrom(lines, mnyIndex, i + 1)

OtherLines(lines, mnyIndex) == OtherLinesFrom(lines, mnyIndex, 1)

\* [...otherLines.slice(0, insertIndex), ...xgLines, ...otherLines.slice(insertIndex)]
Splice(otherLines, xgLines, insertIndex) ==
    SubSeq(otherLines, 1, insertIndex) \o xgLines
    \o SubSeq(otherLines, insertIndex + 1, Len(otherLines))

\* A faulty variant: the splice is done even when findIndex returned -1.
ReorderAt_NoGuard(content, lines, mnyIndex) ==
    Join(Splice(OtherLines(lines, mnyIndex), XgLines(lines), mnyIndex))

ReorderAt(content, lines, mnyIndex) ==
    IF mnyIndex = 0 THEN content
    ELSE Join(Splice(OtherLines(lines, mnyIndex), XgLines(lines), mnyIndex))

ReorderLines(content, lines) == ReorderAt(content, lines, FindMny(lines))

reorderPrnContent(content) == ReorderLines(content, Split(content))

(***************************************************************************)
(* Regular expressions, anchored at index p of s.  A match is              *)
(* <<first index, index of the ^FD / ^XG / comma it found, last index>>;   *)
(* no match is <<>>.                                                       *)
(***************************************************************************)
\* ...\^FD(.*?)\^FS with the ^FD at d: the payload ends at the first ^FS.
SpanTo(p, d, e) == IF e = 0 THEN <<>> ELSE <<p, d, e>>
Span(s, p, d) == IF d = 0 THEN <<>> ELSE SpanTo(p, d, FirstAt(s, d + 1, {"FS"}))

IsKind(s, p, kind) == p <= Len(s) /\ s[p].k = kind

\* /\^XG([A-Z0-9]+),/ at g with c the first index after g that holds no
\* character of [A-Z0-9]: the index of the comma, else 0.
NameEndAt(s, g, c) == IF IsKind(s, g, "XG") /\ c > g + 1 /\ s[c].k = "COMMA" THEN c ELSE 0
NameEnd(s, g) ==
    NameEndAt(s, g, First({j \in (g + 1)..Len(s) : ~(s[j].k = "T" /\ s[j].v \in AlnumAtoms)}))

\* imageRegex /(\^FO(\d+),(\d+).*?)(\^XG([A-Z0-9]+),)/gs
ImageSpan(s, p, g) == IF g = 0 THEN <<>> ELSE <<p, g, NameEnd(s, g)>>
ImageMatchAt(s, p) ==
    IF s[p].k = "FO"
    THEN ImageSpan(s, p, First({g \in (p + 1)..Len(s) : NameEnd(s, g) # 0}))
    ELSE <<>>

\* barcodeRegex /\^FT(\d+),(\d+)\^BE[A-Z],(\d+),[A-Z],[A-Z]\^FD(.*?)\^FS/gs
BarcodeMatchAt(s, p) ==
    IF s[p].k = "FT" /\ IsKind(s, p + 1, "BE") /\ IsKind(s, p + 2, "FD")
    THEN Span(s, p, p + 2)
    ELSE <<>>

\* allFdRegex /\^FT(\d+),(\d+).*?\^FD(.*?)\^FS/gs, and the text pattern of
\* regeneration /\^FT(\d+),(\d+)(.*?)(\^FD)(.*?)(\^FS)/gs
AllFdMatchAt(s, p) ==
    IF s[p].k = "FT" THEN Span(s, p, FirstAt(s, p + 1, {"FD"})) ELSE <<>>

\* /(\^FT\d+,\d+\^BE[A-Z],\d+,[A-Z],[A-Z])(?:\^FH)?\^FD(.*?)\^FS/gs
BarcodeRegenMatchAt(s, p) ==
    IF s[p].k = "FT" /\ IsKind(s, p + 1, "BE")
    THEN IF IsKind(s, p + 2, "FH") /\ IsKind(s, p + 3, "FD") THEN Span(s, p, p + 3)
         ELSE IF IsKind(s, p + 2, "FD") THEN Span(s, p, p + 2)
         ELSE <<>>
    ELSE <<>>

\* /\^FT(\d+),(\d+)\^BE[A-Z].*?\^FD.*?\^FS/gs
BarcodePosMatchAt(s, p) ==
    IF s[p].k = "FT" /\ IsKind(s, p + 1, "BE")
    THEN Span(s, p, FirstAt(s, p + 2, {"FD"}))
    ELSE <<>>

\* /\^XG(.*?)(?=,)/gs: the capture runs to the first comma.  When that comma
\* is a COMMA token at c the match is p..c-1; when it lies inside a command
\* (^FT1,2) the capture ends inside that token.
XgSpan(s, p, c) ==
    IF c = 0 THEN <<>> ELSE <<p, c, IF s[c].k = "COMMA" THEN c - 1 ELSE c>>
XgMatchAt(s, p) ==
    IF s[p].k = "XG" THEN XgSpan(s, p, FirstAt(s, p + 1, CommaKinds)) ELSE <<>>

\* /\^FD(.*?)\^FS/gs
PayloadMatchAt(s, p) == IF s[p].k = "FD" THEN Span(s, p, p) ELSE <<>>

\* \s*: the index of the first token at or after i that is no line break
SkipSpace(s, i) == First({j \in i..(Len(s) + 1) : j > Len(s) \/ s[j].k # "NL"})

\* /\^XA\s*\^ID.*?\^FS\s*\^XZ\s*/gs: the ^FS is the first one that only
\* white space separates from a ^XZ.
IdentitySpan(s, p, f) ==
    IF f = 0 THEN <<>> ELSE <<p, f, SkipSpace(s, SkipSpace(s, f + 1) + 1) - 1>>
IdentityMatchAt(s, p) ==
    IF s[p].k = "XA" /\ IsKind(s, SkipSpace(s, p + 1), "ID")
    THEN IdentitySpan(s, p,
             First({f \in (SkipSpace(s, p + 1) + 1)..Len(s) :
                      s[f].k = "FS" /\ IsKind(s, SkipSpace(s, f + 1), "XZ")}))
    ELSE <<>>

\* /~DG[\s\S]*?\^XA/gs
DefinitionsMatchAt(s, p) ==
    IF s[p].k = "DG" /\ FirstAt(s, p + 1, {"XA"}) # 0
    THEN <<p, p, FirstAt(s, p + 1, {"XA"})>>
    ELSE <<>>

ReMatchAt(re, s, p) ==
    CASE re = "payload" -> PayloadMatchAt(s, p)
      [] re = "identity" -> IdentityMatchAt(s, p)
      [] re = "definitions" -> DefinitionsMatchAt(s, p)
      [] re = "image" -> ImageMatchAt(s, p)
      [] re = "barcode" -> BarcodeMatchAt(s, p)
      [] re = "allFd" -> AllFdMatchAt(s, p)
      [] re = "barcodeRegen" -> BarcodeRegenMatchAt(s, p)
      [] re = "barcodePos" -> BarcodePosMatchAt(s, p)
      [] re = "xg" -> XgMatchAt(s, p)

RECURSIVE MatchAllFrom(_, _, _)
RECURSIVE MatchAllStep(_, _, _, _)
MatchAllStep(re, s, i, m) ==
    IF m = <<>> THEN MatchAllFrom(re, s, i + 1)
    ELSE <<m>> \o MatchAllFrom(re, s, m[3] + 1)

\* String.prototype.matchAll with a global regex: leftmost, non-overlapping.
MatchAllFrom(re, s, i) ==
    IF i > Len(s) THEN <<>> ELSE MatchAllStep(re, s, i, ReMatchAt(re, s, i))

MatchAll(re, s) == MatchAllFrom(re, s, 1)

PosOf(s, m) == <<s[m[1]].x, s[m[1]].y>>

\* The text a match captured after its ^FD or ^XG.
Payload(s, m) == SubSeq(s, m[2] + 1, m[3] - 1)

(***************************************************************************)
(* Field extractor and ordering                                            *)
(***************************************************************************)
\* A faulty variant: x is compared before y.
sortByPosition_XFirst(a, b) == IF a.x # b.x THEN a.x - b.x ELSE a.y - b.y

sortByPosition(a, b) == IF a.y # b.y THEN a.y - b.y ELSE a.x - b.x

\* Array.prototype.sort is stable: a goes before the first element that
\* compares greater.
InsertAt(sorted, a, p) ==
    IF p = 0 THEN Append(sorted, a)
    ELSE SubSeq(sorted, 1, p - 1) \o <<a>> \o SubSeq(sorted, p, Len(sorted))

Insert(sorted, a) ==
    InsertAt(sorted, a, First({j \in 1..Len(sorted) : sortByPosition(sorted[j], a) > 0}))

RECURSIVE Sort(_)
Sort(s) ==
    IF s = <<>> THEN <<>>
    ELSE Insert(Sort(SubSeq(s, 1, Len(s) - 1)), s[Len(s)])

OfType(vs, type) == SelectSeq(vs, LAMBDA v : v.type = type)

\* barcodePositions: the positions of the barcode matches.
PositionsOf(s, ms) == {PosOf(s, ms[i]) : i \in 1..Len(ms)}
BarcodePositions(content) == PositionsOf(content, MatchAll("barcode", content))

\* if (!barcodePositions.has(`${x},${y}`)): the allFd matches that become Text fields.
Unclaimed(content, ms, barcodePositions) ==
    SelectSeq(ms, LAMBDA m : PosOf(content, m) \notin barcodePositions)
TextMatches(content) ==
    Unclaimed(content, MatchAll("allFd", content), BarcodePositions(content))

NumFields(content) ==
    Len(MatchAll("image", content)) + Len(MatchAll("barcode", content))
    + Len(TextMatches(content))

\* variables.push({...}) for one match; ids[k] is the value generateUniqueId
\* returns on its k-th call, index is globalIndex++.
Field(content, m, id, index, type) ==
    [id |-> id, x |-> content[m[1]].x, y |-> content[m[1]].y,
     originalValue |-> Payload(content, m), value |-> Payload(content, m),
     index |-> index, type |-> type, isChecked |-> FALSE,
     imageName |-> IF type = "image" THEN Payload(content, m) ELSE <<>>]

Push(content, ms, ids, base, type) ==
    [i \in 1..Len(ms) |-> Field(content, ms[i], ids[base + i], base + i - 1, type)]

PushAll(content, ids, im, bm, tm) ==
    Push(content, im, ids, 0, "image") \o Push(content, bm, ids, Len(im), "barcode")
    \o Push(content, tm, ids, Len(im) + Len(bm), "text")

\* The fields in discovery order: images, then barcodes, then texts.
Discovered(content, ids) ==
    PushAll(content, ids, MatchAll("image", content), MatchAll("barcode", content),
            TextMatches(content))

SortByType(found) ==
    Sort(OfType(found, "barcode")) \o Sort(OfType(found, "image"))
    \o Sort(OfType(found, "text"))

\* sorted.forEach((v, i) => v.index = i)
Reindex(sorted) == [i \in 1..Len(sorted) |-> [sorted[i] EXCEPT !.index = i - 1]]

extractVariables(content, ids) == Reindex(SortByType(Discovered(content, ids)))

\* /~DG[\s\S]*?\^XA/ (first match)
DefinitionsAt(content, i) ==
    IF i = 0 THEN <<>> ELSE SubSeq(content, i, FirstAt(content, i + 1, {"XA"}))
extractImageDefinitions(content) ==
    DefinitionsAt(content,
        First({i \in 1..Len(content) :
                 content[i].k = "DG" /\ FirstAt(content, i + 1, {"XA"}) # 0}))

\* The i flag: two characters match when they differ in case only.
FoldCase(t) == IF t.k = "T" /\ t.v = "e_acute" THEN T("E_acute") ELSE t

MatchesName(s, p, name) ==
    /\ p + Len(name) <= Len(s)
    /\ \A j \in 1..Len(name) : FoldCase(s[p + j]) = FoldCase(name[j])

\* new RegExp(`(~DG${escapedName}[\\s\\S]*?(?=~DG|\\^XA|\\^XZ))`, 'i') at p: the
\* index of the command the lookahead finds, else 0.
DefinitionEnd(s, p, name) ==
    IF s[p].k = "DG" /\ MatchesName(s, p, name)
    THEN FirstAt(s, p + Len(name) + 1, {"DG", "XA", "XZ"})
    ELSE 0

DefinitionFrom(s, p, name) ==
    IF p = 0 THEN <<>> ELSE SubSeq(s, p, DefinitionEnd(s, p, name) - 1)

\* imageDefinitions.match(regex)?.[1] ?? ""
getImageDefinitionByName(defs, imageName) ==
    DefinitionFrom(defs, First({p \in 1..Len(defs) : DefinitionEnd(defs, p, imageName) # 0}),
                   imageName)

(***************************************************************************)
(* Regenerator                                                             *)
(***************************************************************************)
\* variableMaps: new Map(variables.filter(type).map(v => [v.originalValue, v]))
\* and Map.get: a later entry with the same key replaces an earlier one.
\* Index in vs of the field found, else 0.
MapGet(vs, type, key) ==
    Last({i \in 1..Len(vs) : vs[i].type = type /\ vs[i].originalValue = key})

\* imageMap.get(cap)?.value ? `^XG${imageMap.get(cap)!.value}` : m
ImageEmit(vs, k, matched) ==
    IF k # 0 /\ vs[k].value # <<>> THEN <<XG>> \o vs[k].value ELSE matched

\* (m, cap) => ..., for the match m = <<p, c, e>> of s.
ImageReplacement(s, m, vs) ==
    ImageEmit(vs,
              IF s[m[2]].k = "COMMA" THEN MapGet(vs, "image", SubSeq(s, m[1] + 1, m[3])) ELSE 0,
              SubSeq(s, m[1], m[3]))

\* const content = v ? convertToCP850(v.value) : fdValue
Content(vs, k, fdValue) == IF k # 0 THEN convertToCP850(vs[k].value) ELSE fdValue

\* (_, prefix, fdValue) => `${prefix}^FH^FD${content}^FS`
BarcodeReplacement(s, m, vs) ==
    <<s[m[1]], s[m[1] + 1], FH, FD>>
    \o Content(vs, MapGet(vs, "barcode", Payload(s, m)), Payload(s, m)) \o <<FS>>

\* Two faulty variants: one drops what stood between the position and ^FD,
\* one adds ^FH without looking for one.
TextEmit_NoMiddle(ft, middle, content, fsPart) ==
    <<ft, FH, FD>> \o content \o <<fsPart>>

TextEmit_AlwaysFH(ft, middle, content, fsPart) ==
    <<ft>> \o middle \o <<FH, FD>> \o content \o <<fsPart>>

\* `^FT${x},${y}${hasFH ? middle : middle + '^FH'}^FD${content}${fsPart}`
TextEmit(ft, middle, content, fsPart) ==
    <<ft>> \o (IF Includes(middle, "FH") THEN middle ELSE middle \o <<FH>>)
    \o <<FD>> \o content \o <<fsPart>>

\* (m, x, y, middle, _, fdValue, fsPart) => ...
TextReplacement(s, m, vs, barcodePos) ==
    IF PosOf(s, m) \in barcodePos THEN SubSeq(s, m[1], m[3])
    ELSE TextEmit(s[m[1]], SubSeq(s, m[1] + 1, m[2] - 1),
                  Content(vs, MapGet(vs, "text", Payload(s, m)), Payload(s, m)),
                  s[m[3]])

RECURSIVE Unescape(_)
\* match.replace(/_5f/g, "_")
Unescape(t) ==
    IF Len(t) < 2 THEN t
    ELSE IF t[1] = T("_") /\ t[2] = T("5f") THEN <<T("_")>> \o Unescape(SubSeq(t, 3, Len(t)))
    ELSE <<t[1]>> \o Unescape(Tail(t))

Replacement(re, s, m, vs, barcodePos) ==
    CASE re = "payload" -> Unescape(SubSeq(s, m[1], m[3]))
      [] re = "identity" -> <<>>
      [] re = "definitions" -> <<XA>>
      [] re = "xg" -> ImageReplacement(s, m, vs)
      [] re = "barcodeRegen" -> BarcodeReplacement(s, m, vs)
      [] re = "allFd" -> TextReplacement(s, m, vs, barcodePos)

RECURSIVE ReplaceFrom(_, _, _, _, _)
RECURSIVE ReplaceStep(_, _, _, _, _, _)
ReplaceStep(re, s, i, vs, barcodePos, m) ==
    IF m = <<>> THEN <<s[i]>> \o ReplaceFrom(re, s, i + 1, vs, barcodePos)
    ELSE Replacement(re, s, m, vs, barcodePos)
         \o ReplaceFrom(re, s, m[3] + 1, vs, barcodePos)

\* String.prototype.replace with a global regex and a callback.
ReplaceFrom(re, s, i, vs, barcodePos) ==
    IF i > Len(s) THEN <<>>
    ELSE ReplaceStep(re, s, i, vs, barcodePos, ReMatchAt(re, s, i))

ReplaceImages(content, vs) == ReplaceFrom("xg", content, 1, vs, {})

ReplaceBarcodes(result, vs) == ReplaceFrom("barcodeRegen", result, 1, vs, {})

\* barcodePos, collected from the text after the barcode pass
BarcodePos(result) == PositionsOf(result, MatchAll("barcodePos", result))

ReplaceTexts(result, vs) == ReplaceFrom("allFd", result, 1, vs, BarcodePos(result))

generateZplWithCurrentValues(content, vs) ==
    IF content = <<>> \/ Len(vs) = 0 THEN <<>>
    ELSE ReplaceTexts(ReplaceBarcodes(ReplaceImages(content, vs), vs), vs)

(***************************************************************************)
(* Export cleanup                                                          *)
(***************************************************************************)
\* cleaned.replace(/(?<!\^FH)\^FD/g, "^FH^FD")
InsertHexMarker(s) ==
    [i \in 1..Len(s) |-> IF s[i].k = "FD" /\ ~(i > 1 /\ s[i - 1].k = "FH")
                         THEN <<FH, FD>> ELSE <<s[i]>>]

RECURSIVE Flatten(_)
Flatten(ss) == IF ss = <<>> THEN <<>> ELSE Head(ss) \o Flatten(Tail(ss))

\* cleaned.replace(/\^FD(.*?)\^FS/gs, (match) => match.replace(/_5f/g, "_"))
RestoreUnderscore(s) == ReplaceFrom("payload", s, 1, <<>>, {})

\* cleaned.replace(/\^XA\s*\^ID.*?\^FS\s*\^XZ\s*/gs, "")
StripIdentity(s) == ReplaceFrom("identity", s, 1, <<>>, {})

\* cleaned.replace(/~DG[\s\S]*?\^XA/gs, "^XA")
StripDefinitions(s) == ReplaceFrom("definitions", s, 1, <<>>, {})

\* cleaned.replace(/(\^BE[A-Z],\d+,)N(,[A-Z])/g, '$1Y$2')
ForceFlag(s) ==
    [i \in 1..Len(s) |-> IF s[i].k = "BE" /\ s[i].v = "N" THEN [s[i] EXCEPT !.v = "Y"] ELSE s[i]]

\* One of the five replace steps, by its place in cleanZplForDownload.
CleanStep(n, s) ==
    CASE n = 1 -> Flatten(InsertHexMarker(s))
      [] n = 2 -> RestoreUnderscore(s)
      [] n = 3 -> StripIdentity(s)
      [] n = 4 -> StripDefinitions(s)
      [] n = 5 -> ForceFlag(s)

CleanSteps(zpl) == CleanStep(5, CleanStep(4, CleanStep(3, CleanStep(2, CleanStep(1, zpl)))))

\* variables.filter(v => v.type === 'image' && v.isChecked && v.imageName)
CheckedImages(vs) ==
    SelectSeq(vs, LAMBDA v : v.type = "image" /\ v.isChecked /\ v.imageName # <<>>)

\* Array.from(new Set(checkedImages.map(v => v.imageName)))
\*      .map(name => checkedImages.find(v => v.imageName === name)!)
UniqueChecked(checked) ==
    SelectSeq([i \in 1..Len(checked) |->
                  IF \E j \in 1..(i - 1) : checked[j].imageName = checked[i].imageName
                  THEN <<>> ELSE <<checked[i]>>],
              LAMBDA e : e # <<>>)

\* definition.replace(`~DG${v.imageName}`, `~DG${v.value}`): the first
\* occurrence, compared character by character.
RenameAt(definition, p, name, value) ==
    IF p = 0 THEN definition
    ELSE SubSeq(definition, 1, p) \o value
         \o SubSeq(definition, p + Len(name) + 1, Len(definition))
Rename(definition, name, value) ==
    RenameAt(definition,
             First({p \in 1..Len(definition) :
                      /\ definition[p].k = "DG"
                      /\ p + Len(name) <= Len(definition)
                      /\ SubSeq(definition, p + 1, p + Len(name)) = name}),
             name, value)

\* definition.replace(/\^(XA|XZ)/g, '') + "\n", nothing when the lookup found none
DefinitionToInsert(definition, v) ==
    IF definition = <<>> THEN <<>>
    ELSE SelectSeq(Rename(definition, v.imageName, v.value),
                   LAMBDA t : t.k \notin {"XA", "XZ"}) \o <<NL>>

\* imageDefsToInsert
ImageDefsToInsert(unique, defs) ==
    <<NL>> \o Flatten([i \in 1..Len(unique) |->
                          DefinitionToInsert(
                              getImageDefinitionByName(defs, unique[i][1].imageName),
                              unique[i][1])])

\* cleaned.match(insertRegex) ? cleaned.replace(insertRegex, `$1${defs}$2`)
\*                            : cleaned.replace(/(\^XA)/, `$1${defs}`)
InsertAfter(s, p, toInsert) ==
    IF p = 0 THEN s ELSE SubSeq(s, 1, p) \o toInsert \o SubSeq(s, p + 1, Len(s))
InsertDefs(s, toInsert) ==
    InsertAfter(s,
        IF \E p \in 1..Len(s) : s[p].k = "XA" /\ IsKind(s, p + 1, "PRB") /\ IsKind(s, p + 2, "FS")
        THEN First({p \in 1..Len(s) :
                      s[p].k = "XA" /\ IsKind(s, p + 1, "PRB") /\ IsKind(s, p + 2, "FS")})
        ELSE FirstAt(s, 1, {"XA"}),
        toInsert)

Embed(s, checked, defs) ==
    IF Len(checked) > 0 THEN InsertDefs(s, ImageDefsToInsert(UniqueChecked(checked), defs))
    ELSE s

cleanZplForDownload(zpl, vs, defs) == Embed(CleanSteps(zpl), CheckedImages(vs), defs)

(***************************************************************************)
(* Documents and edited values the model draws                             *)
(***************************************************************************)
LineSet ==
    { <<FO(2, 1), XG, T("A"), COMMA, FS>>,        \* image A, ^FO2,1^XGA,^FS
      <<FO(1, 2), XG, T("B"), COMMA, FS>>,        \* image B
      <<FT(1, 1), XG, T("A"), COMMA, FS>>,        \* image placed with ^FT, no ^FD
      <<FT(1, 2), BE, FD, T("P"), FS>>,           \* barcode P
      <<FT(2, 1), BE, FH, FD, T("Q"), FS>>,       \* barcode that carries ^FH
      <<FT(1, 1), FD, T("Q"), FS>>,               \* text Q
      <<FT(1, 2), FD, T("R"), FS>>,               \* text R, where barcode P is
      <<FT(1, 1), FH, FD, T("e_acute"), FS>>,     \* text with ^FH and an accent
      <<FO(1, 1), FD, T("R"), FS>>,               \* text placed with ^FO
      <<MNY>> }                                   \* the marker line

RECURSIVE LinesUpTo(_)
\* The sequences of at most n lines.
LinesUpTo(n) ==
    IF n = 0 THEN {<<>>}
    ELSE {<<>>} \cup {<<l>> \o ls : l \in LineSet, ls \in LinesUpTo(n - 1)}

Docs == {Join(ls) : ls \in LinesUpTo(MaxLines) \ {<<>>}}

\* Label files with image definitions before the label, for the export.
DefA == <<DG, T("A"), COMMA, T("d")>>
DefAB == <<DG, T("A"), T("B"), COMMA, T("e")>>
ImageAt(x, y, name) == <<FO(x, y), XG>> \o name \o <<COMMA, FS>>

ExportDocs ==
    { <<>>,
      Join(<<<<XA>>, <<FT(1, 1), FD, T("Q"), FS>>, <<XZ>>>>),
      Join(<<DefA, <<XA, PRB, FS>>, ImageAt(2, 1, <<T("A")>>), <<XZ>>>>),
      Join(<<DefA, <<XA>>, ImageAt(2, 1, <<T("A")>>), ImageAt(1, 2, <<T("A")>>), <<XZ>>>>),
      Join(<<DefAB, DefA, <<XA>>, ImageAt(2, 1, <<T("A")>>),
             ImageAt(1, 2, <<T("A"), T("B")>>), <<XZ>>>>),
      Join(<<DefAB, <<XA>>, ImageAt(2, 1, <<T("A")>>), <<XZ>>>>) }

\* What the user types into the input of a field.
Values == {<<>>, <<T("X")>>, <<T("e_acute")>>}

\* What the dropdown offers: the value of an entry of its list.  The list is
\* data, any string can be an entry.
Catalogue == {<<T("X")>>, <<T("e_acute")>>}

\* String.prototype.toUpperCase
toUpperCase(text) ==
    [i \in 1..Len(text) |->
        IF text[i].k = "T" /\ text[i].v = "e_acute" THEN T("E_acute") ELSE text[i]]

\* generateUniqueId is Math.random().toString(36).substring(2, 9): nothing
\* makes two draws differ.  Ids are only compared for equality, so the draws
\* of one extraction are enumerated up to renaming: each draw repeats an
\* earlier one or is the next new value.
IdDraws(n) ==
    {f \in [1..n -> 1..n] :
        \A i \in 1..n : f[i] <= 1 + Max({0} \cup {f[j] : j \in 1..(i - 1)})}

(***************************************************************************)
(* State machine                                                           *)
(***************************************************************************)
DEFAULT_CONFIG == [dpmm |-> 8, width |-> 5, height |-> 6]

\* setError(null)
NoError == "null"

\* The state of the preview, the export and the cleanup before any of them ran.
Idle ==
    /\ config = DEFAULT_CONFIG
    /\ timers = {}
    /\ timeoutRef = 0
    /\ requests = <<>>
    /\ previewUrl = <<>>
    /\ error = NoError
    /\ isLoading = FALSE
    /\ downloaded = <<>>
    /\ attempts = 0
    /\ cleaned = <<>>
    /\ fileName = ""
    /\ reading = {}

Init ==
    /\ raw = <<>>
    /\ originalContent = <<>>
    /\ variables = <<>>
    /\ imageDefinitions = <<>>
    /\ Idle

\* What the closure of renderLabelPreview holds: the state of the render in
\* which it was created.
Closure(oc, vs, defs, cfg) ==
    [originalContent |-> oc, variables |-> vs, imageDefinitions |-> defs, config |-> cfg]

\* setTimeout returns an id no pending timeout has.
NewTimeout(pending) == Min({n \in 1..(Cardinality(pending) + 1) : \A t \in pending : t.id # n})

SetTimeout(pending, job) ==
    /\ timers' = pending \cup {[id |-> NewTimeout(pending), job |-> job]}
    /\ timeoutRef' = NewTimeout(pending)

\* clearTimeout(timeoutRef.current): what stays pending
ClearTimeout(pending, id) == {t \in pending : t.id # id}

\* The function useDebounce returns:
\*   if (timeoutRef.current) clearTimeout(timeoutRef.current);
\*   timeoutRef.current = setTimeout(() => callback(...args), delay)
debouncedRenderPreview(job) == SetTimeout(ClearTimeout(timers, timeoutRef), job)

\* useEffect(() => { if (originalContent) debouncedRenderPreview(); },
\*           [variables, config, originalContent, debouncedRenderPreview])
\* run after a render that changed one of them, with the new values.
Effect(oc, vs, defs, cfg) ==
    IF oc # <<>> THEN debouncedRenderPreview(Closure(oc, vs, defs, cfg))
    ELSE UNCHANGED <<timers, timeoutRef>>

\* What the handlers of the field list do not write.
FieldHandlerFrame ==
    UNCHANGED <<config, requests, previewUrl, error, isLoading, downloaded, attempts, cleaned>>

\* What only processFile writes.
FileFrame == UNCHANGED <<fileName, reading>>

\* file.name of the file chosen where one file at a time is chosen and read
LabelName == "label.prn"

\* A load that keeps the definitions of the previous file
Load_KeepStore(doc, reordered, ids) ==
    /\ raw' = doc
    /\ imageDefinitions' = imageDefinitions
    /\ originalContent' = reordered
    /\ variables' = extractVariables(reordered, ids)

\* processFile: reader.onload, with reordered = reorderPrnContent(raw)
Load(doc, reordered, ids) ==
    /\ raw' = doc
    /\ imageDefinitions' = extractImageDefinitions(doc)
    /\ originalContent' = reordered
    /\ variables' = extractVariables(reordered, ids)

\* processFile on a file whose text is one of docs, and the effect that follows
LoadFrom(docs) ==
    \E doc \in docs :
        \E reordered \in {reorderPrnContent(doc)} :
            \E ids \in IdDraws(NumFields(reordered)) :
                /\ fileName' = LabelName
                /\ reading' = reading
                /\ Load(doc, reordered, ids)
                /\ FieldHandlerFrame
                /\ Effect(originalContent', variables', imageDefinitions', config')

LoadFile == LoadFrom(Docs)

\* setVariables(p => p.map(v => v.id === id ? { ...v, value } : v))
handleVariableChange(id, value) ==
    /\ variables' = [i \in 1..Len(variables) |->
                        IF variables[i].id = id
                        THEN [variables[i] EXCEPT !.value = value]
                        ELSE variables[i]]
    /\ UNCHANGED <<raw, originalContent, imageDefinitions>>

\* onChange of the input of a listed field:
\* onChange(isImg || isBc ? e.target.value.toUpperCase() : e.target.value)
EditWith(values) ==
    \E i \in 1..Len(variables) : \E value \in values :
        /\ handleVariableChange(variables[i].id,
                                IF variables[i].type \in {"image", "barcode"}
                                THEN toUpperCase(value) ELSE value)
        /\ FieldHandlerFrame
        /\ FileFrame
        /\ Effect(originalContent', variables', imageDefinitions', config')

EditField == EditWith(Values)

\* onSelect of the dropdown of a listed field
SelectField ==
    \E i \in 1..Len(variables) : \E value \in Catalogue :
        /\ handleVariableChange(variables[i].id, value)
        /\ FieldHandlerFrame
        /\ FileFrame
        /\ Effect(originalContent', variables', imageDefinitions', config')

\* setVariables(prev => prev.map(item => item.id === v.id ? { ...item, isChecked: c } : item))
onCheckboxChange(id, c) ==
    /\ variables' = [i \in 1..Len(variables) |->
                        IF variables[i].id = id
                        THEN [variables[i] EXCEPT !.isChecked = c]
                        ELSE variables[i]]
    /\ UNCHANGED <<raw, originalContent, imageDefinitions>>

\* the checkbox is rendered for Image fields only
ToggleEmbedding ==
    \E i \in 1..Len(variables) : \E c \in BOOLEAN :
        /\ variables[i].type = "image"
        /\ onCheckboxChange(variables[i].id, c)
        /\ FieldHandlerFrame
        /\ FileFrame
        /\ Effect(originalContent', variables', imageDefinitions', config')

Next == LoadFile \/ EditField \/ SelectField \/ ToggleEmbedding

Spec == Init /\ [][Next]_vars

(***************************************************************************)
(* One session on one document: the file read is drawn at the start, and   *)
(* the editing handlers act on what processFile made of it.                *)
(***************************************************************************)
InitFrom(docs) ==
    \E doc \in docs :
        \E reordered \in {reorderPrnContent(doc)} :
            \E ids \in IdDraws(NumFields(reordered)) :
                /\ raw = doc
                /\ imageDefinitions = extractImageDefinitions(doc)
                /\ originalContent = reordered
                /\ variables = extractVariables(reordered, ids)
                /\ config = DEFAULT_CONFIG
                /\ timeoutRef = (IF originalContent # <<>> THEN 1 ELSE 0)
                /\ timers = (IF originalContent # <<>>
                             THEN {[id |-> 1,
                                    job |-> Closure(originalContent, variables,
                                                    imageDefinitions, config)]}
                             ELSE {})
                /\ requests = <<>>
                /\ previewUrl = <<>>
                /\ error = NoError
                /\ isLoading = FALSE
                /\ downloaded = <<>>
                /\ attempts = 0
                /\ cleaned = <<>>
                /\ fileName = LabelName
                /\ reading = {}

InitDoc == InitFrom(Docs)

NextDoc == EditField \/ SelectField \/ ToggleEmbedding

SpecDoc == InitDoc /\ [][NextDoc]_vars

(***************************************************************************)
(* Documents in which one statement carries the marker and a variable      *)
(* field (^FT1,1^FH^FVQ^FS) instead of a payload, before or after a line   *)
(* of the other kinds.                                                     *)
(***************************************************************************)
FV == Tok("FV")

VariableLine == <<FT(1, 1), FH, FV, T("Q"), FS>>

MarkerDocs ==
    {Join(<<VariableLine, l>>) : l \in LineSet} \cup {Join(<<l, VariableLine>>) : l \in LineSet}

InitMarker == InitFrom(MarkerDocs)

SpecMarker == InitMarker /\ [][NextDoc]_vars

(***************************************************************************)
(* Export: documents that carry image definitions, edited and downloaded.  *)
(***************************************************************************)
\* const zpl = generateZplWithCurrentValues(); if (!zpl) return;
\* const final = cleanZplForDownload(zpl, variables, imageDefinitions); link.click()
Download(zpl) ==
    IF zpl = <<>> THEN UNCHANGED downloaded
    ELSE downloaded' = Append(downloaded, cleanZplForDownload(zpl, variables, imageDefinitions))

\* A faulty variant that stores the regenerated text as the source.
handleSubmit_FedBack ==
    /\ attempts < MaxAttempts
    /\ attempts' = attempts + 1
    /\ Download(generateZplWithCurrentValues(originalContent, variables))
    /\ originalContent' = generateZplWithCurrentValues(originalContent, variables)
    /\ UNCHANGED <<raw, variables, imageDefinitions, config, timers,
                   timeoutRef, requests, previewUrl, error, isLoading, cleaned,
                   fileName, reading>>

\* A click on the download button; attempts counts the clicks.
handleSubmit ==
    /\ attempts < MaxAttempts
    /\ attempts' = attempts + 1
    /\ Download(generateZplWithCurrentValues(originalContent, variables))
    /\ UNCHANGED <<raw, originalContent, variables, imageDefinitions, config, timers,
                   timeoutRef, requests, previewUrl, error, isLoading, cleaned,
                   fileName, reading>>

InitExport == InitFrom(ExportDocs)

NextExport == EditField \/ SelectField \/ ToggleEmbedding \/ handleSubmit

SpecExport == InitExport /\ [][NextExport]_vars

(***************************************************************************)
(* Preview: loads, edits and configuration changes schedule the debounced  *)
(* render; its timeout fires, the request goes to the render service, and  *)
(* the responses come back in any order.                                   *)
(***************************************************************************)
PreviewDocs ==
    { <<>>,
      Join(<<<<XA>>, <<XZ>>>>),
      Join(<<<<XA>>, <<FT(1, 1), FD, T("Q"), FS>>, <<XZ>>>>),
      Join(<<DefA, <<XA>>, ImageAt(2, 1, <<T("A")>>), <<XZ>>>>) }

LoadPreview == LoadFrom(PreviewDocs)

\* What is typed into a field while previews are rendered
PreviewValues == {<<T("X")>>}

EditPreview == EditWith(PreviewValues)

\* The values the dpmm input is set to
Dpmms == {DEFAULT_CONFIG.dpmm, DEFAULT_CONFIG.dpmm + 4}

\* onChange of a configuration input: setConfig(p => ({ ...p, [i.k]: Number(e.target.value) }))
ChangeConfig ==
    /\ \E d \in Dpmms : config' = [config EXCEPT !.dpmm = d]
    /\ UNCHANGED <<raw, originalContent, variables, imageDefinitions, requests, previewUrl,
                   error, isLoading, downloaded, attempts, cleaned,
                   fileName, reading>>
    /\ Effect(originalContent', variables', imageDefinitions', config')

RECURSIVE RenameAllFrom(_, _, _, _)
\* allDefs.replace(new RegExp(`~DG${v.imageName}`, 'g'), `~DG${v.value}`)
RenameAllFrom(defs, i, name, value) ==
    IF i > Len(defs) THEN <<>>
    ELSE IF defs[i].k = "DG" /\ i + Len(name) <= Len(defs)
            /\ SubSeq(defs, i + 1, i + Len(name)) = name
    THEN <<DG>> \o value \o RenameAllFrom(defs, i + Len(name) + 1, name, value)
    ELSE <<defs[i]>> \o RenameAllFrom(defs, i + 1, name, value)

RECURSIVE AllDefs(_, _)
\* variables.filter(v => v.type === 'image').forEach(v => { if (v.imageName) ... })
AllDefs(defs, images) ==
    IF images = <<>> THEN defs
    ELSE AllDefs(IF Head(images).imageName # <<>>
                 THEN RenameAllFrom(defs, 1, Head(images).imageName, Head(images).value)
                 ELSE defs,
                 Tail(images))

\* previewZpl.replace('^XA', `${allDefs}\n^XA`)
InsertBefore(s, p, toInsert) ==
    IF p = 0 THEN s ELSE SubSeq(s, 1, p - 1) \o toInsert \o SubSeq(s, p, Len(s))
WithDefs(stripped, allDefs) ==
    InsertBefore(stripped, FirstAt(stripped, 1, {"XA"}), allDefs \o <<NL>>)

\* previewZpl of renderLabelPreview
PreviewZpl(zpl, vs, defs) ==
    IF defs = <<>> THEN zpl
    ELSE WithDefs(StripDefinitions(zpl), AllDefs(defs, OfType(vs, "image")))

\* The fetch of renderLabelPreview: the body posted and the configuration in
\* the URL; latest tells that no request was issued after this one.
Request(job) ==
    [body |-> PreviewZpl(generateZplWithCurrentValues(job.originalContent, job.variables),
                         job.variables, job.imageDefinitions),
     config |-> job.config,
     latest |-> TRUE]

Superseded(rs) == [i \in 1..Len(rs) |-> [rs[i] EXCEPT !.latest = FALSE]]

\* A faulty variant that returns before the fetch whatever the text is.
renderLabelPreview_NoFetch(job) == UNCHANGED <<requests, isLoading, error>>

\* renderLabelPreview, as the closure job holds it, up to the fetch
renderLabelPreview(job) ==
    IF generateZplWithCurrentValues(job.originalContent, job.variables) = <<>>
    THEN UNCHANGED <<requests, isLoading, error>>
    ELSE /\ requests' = Append(Superseded(requests), Request(job))
         /\ isLoading' = TRUE
         /\ error' = NoError

\* The timeout of useDebounce runs its callback.
TimerFire ==
    \E t \in timers :
        /\ Len(requests) < MaxInFlight
        /\ timers' = timers \ {t}
        /\ renderLabelPreview(t.job)
        /\ UNCHANGED <<raw, originalContent, variables, imageDefinitions, config, timeoutRef,
                       previewUrl, downloaded, attempts, cleaned,
                       fileName, reading>>

Remove(rs, i) == SubSeq(rs, 1, i - 1) \o SubSeq(rs, i + 1, Len(rs))

\* URL.createObjectURL(await resp.blob()): the picture of a body under a configuration
Picture(r) == <<r.body, r.config>>

\* resp.ok: setPreviewUrl(...); finally setIsLoading(false)
RespondOk ==
    \E i \in 1..Len(requests) :
        /\ previewUrl' = Picture(requests[i])
        /\ isLoading' = FALSE
        /\ requests' = Remove(requests, i)
        /\ UNCHANGED <<raw, originalContent, variables, imageDefinitions, config, timers,
                       timeoutRef, error, downloaded, attempts, cleaned,
                       fileName, reading>>

\* err.message
Failure == "failure"

\* A failure handler without the finally clause
RespondFail_NoFinally ==
    \E i \in 1..Len(requests) :
        /\ error' = Failure
        /\ requests' = Remove(requests, i)
        /\ UNCHANGED <<raw, originalContent, variables, imageDefinitions, config, timers,
                       timeoutRef, previewUrl, isLoading, downloaded, attempts, cleaned,
                       fileName, reading>>

\* !resp.ok or a rejected fetch: catch setError(err.message); finally setIsLoading(false)
RespondFail ==
    \E i \in 1..Len(requests) :
        /\ error' = Failure
        /\ isLoading' = FALSE
        /\ requests' = Remove(requests, i)
        /\ UNCHANGED <<raw, originalContent, variables, imageDefinitions, config, timers,
                       timeoutRef, previewUrl, downloaded, attempts, cleaned,
                       fileName, reading>>

NextPreview ==
    LoadPreview \/ EditPreview \/ ChangeConfig \/ TimerFire \/ RespondOk \/ RespondFail

SpecPreview == Init /\ [][NextPreview]_vars

\* A timeout set with setTimeout runs once its delay has passed, and the
\* promise of a fetch settles: it is fulfilled or it is rejected.
Response == RespondOk \/ RespondFail

\* TimerFire can take a step: ENABLED <<TimerFire>>_vars, every step of
\* TimerFire taking a timeout out of timers.
TimerEnabled == timers # {} /\ Len(requests) < MaxInFlight

\* WF_vars(TimerFire), written with TimerEnabled
TimerFair == []<>(~TimerEnabled) \/ []<><<TimerFire>>_vars

FairPreview == TimerFair /\ WF_vars(Response)

\* The preview of one document and of the empty file, under fairness
FollowDocs == {<<>>, Join(<<<<XA>>, <<FT(1, 1), FD, T("Q"), FS>>, <<XZ>>>>)}

LoadFollow == LoadFrom(FollowDocs)

NextFollow ==
    LoadFollow \/ EditPreview \/ ChangeConfig \/ TimerFire \/ RespondOk \/ RespondFail

SpecFollow == Init /\ [][NextFollow]_vars /\ FairPreview

(***************************************************************************)
(* Render and export under the default configuration: what a failed or an  *)
(* empty render leaves behind, and the download that follows.              *)
(***************************************************************************)
NextFailure ==
    LoadPreview \/ EditPreview \/ TimerFire \/ RespondOk \/ RespondFail \/ handleSubmit

SpecFailure == Init /\ [][NextFailure]_vars

(***************************************************************************)
(* One whole session: every handler of the page, the debounced render and  *)
(* its responses, and the download.                                        *)
(***************************************************************************)
SessionDocs ==
    { Join(<<<<XA>>, <<FT(1, 1), FD, T("Q"), FS>>, <<XZ>>>>),
      Join(<<DefA, <<XA>>, ImageAt(2, 1, <<T("A")>>), <<XZ>>>>) }

LoadSession == LoadFrom(SessionDocs)

NextSession ==
    \/ LoadSession \/ EditPreview \/ ToggleEmbedding \/ ChangeConfig
    \/ TimerFire \/ RespondOk \/ RespondFail \/ handleSubmit

SpecSession == Init /\ [][NextSession]_vars

(***************************************************************************)
(* Files chosen while an earlier one is still being read: processFile      *)
(* stores the name at once and the rest when reader.onload runs; the reads *)
(* complete in any order.                                                  *)
(***************************************************************************)
Files ==
    { [name |-> "a.prn", text |-> Join(<<<<XA>>, <<FT(1, 1), FD, T("Q"), FS>>, <<XZ>>>>)],
      [name |-> "b.prn", text |-> Join(<<DefA, <<XA>>, ImageAt(2, 1, <<T("A")>>), <<XZ>>>>)] }

\* processFile up to reader.readAsText(file): setFileName(file.name)
ChooseFile ==
    \E file \in Files \ reading :
        /\ fileName' = file.name
        /\ reading' = reading \cup {file}
        /\ UNCHANGED <<raw, originalContent, variables, imageDefinitions, timers, timeoutRef>>
        /\ FieldHandlerFrame

\* reader.onload of one of the files being read, and the effect that follows
ReadComplete ==
    \E file \in reading :
        \E reordered \in {reorderPrnContent(file.text)} :
            \E ids \in IdDraws(NumFields(reordered)) :
                /\ reading' = reading \ {file}
                /\ fileName' = fileName
                /\ Load(file.text, reordered, ids)
                /\ FieldHandlerFrame
                /\ Effect(originalContent', variables', imageDefinitions', config')

NextLoads == ChooseFile \/ ReadComplete \/ EditPreview \/ ToggleEmbedding \/ handleSubmit

SpecLoads == Init /\ [][NextLoads]_vars

(***************************************************************************)
(* The cleanup steps on their own: a text is drawn, and the steps of       *)
(* cleanZplForDownload are applied to it, in any order, any number of      *)
(* times.                                                                  *)
(***************************************************************************)
\* ^FH\: the marker written with its indicator character, as in ^FH\^FD
Indicator == T("backslash")

Pieces ==
    { <<FD>>, <<FS>>, <<FH, FD>>, <<FH, Indicator, FD>>, <<T("_"), T("5f")>>, <<T("5f")>>,
      <<XA>>, <<ID, T("Q"), FS, XZ>>, <<DG, T("A")>>, <<BE>>, <<NL>> }

RECURSIVE TextsOf(_)
TextsOf(n) ==
    IF n = 0 THEN {<<>>}
    ELSE TextsOf(n - 1) \cup {t \o p : t \in TextsOf(n - 1), p \in Pieces}

InitClean ==
    /\ raw = <<>>
    /\ originalContent = <<>>
    /\ variables = <<>>
    /\ imageDefinitions = <<>>
    /\ config = DEFAULT_CONFIG
    /\ timers = {}
    /\ timeoutRef = 0
    /\ requests = <<>>
    /\ previewUrl = <<>>
    /\ error = NoError
    /\ isLoading = FALSE
    /\ downloaded = <<>>
    /\ attempts = 0
    /\ cleaned \in TextsOf(MaxPieces)
    /\ fileName = ""
    /\ reading = {}

\* cleaned = cleaned.replace(...): one of the five steps
ApplyCleanStep ==
    /\ \E n \in 1..5 : cleaned' = CleanStep(n, cleaned)
    /\ UNCHANGED <<raw, originalContent, variables, imageDefinitions, config, timers,
                   timeoutRef, requests, previewUrl, error, isLoading, downloaded, attempts,
                   fileName, reading>>

SpecClean == InitClean /\ [][ApplyCleanStep]_vars

\* The text regeneration returns in the current state.
Regenerated == generateZplWithCurrentValues(originalContent, variables)

(***************************************************************************)
(* Vocabulary of the properties                                            *)
(***************************************************************************)
\* sub occurs in s as a run of consecutive tokens.
Contains(s, sub) ==
    \E i \in 0..(Len(s) - Len(sub)) : SubSeq(s, i + 1, i + Len(sub)) = sub

StripFH(s) == SelectSeq(s, LAMBDA t : t.k # "FH")

\* Every field still has the value extraction gave it.
Pristine == \A i \in 1..Len(variables) : variables[i].value = variables[i].originalValue

OneId(n) == [i \in 1..n |-> 1]

\* What a field is, apart from its id, value, flag and index.
Proj(vs) == [i \in 1..Len(vs) |-> <<vs[i].type, vs[i].x, vs[i].y, vs[i].originalValue>>]

-----------------------------------------------------------------------------
(* C4: with the marker line at index k, exactly the ^XG lines after k move *)
(* to a block right after line k, in their order; the lines up to k and    *)
(* the other lines after k keep their order; no line is added, duplicated  *)
(* or lost.                                                                *)
ExpectedOrder(lines, k) ==
    SubSeq(lines, 1, k)
    \o SelectSeq(SubSeq(lines, k + 1, Len(lines)), LAMBDA l : Includes(l, "XG"))
    \o SelectSeq(SubSeq(lines, k + 1, Len(lines)), LAMBDA l : ~Includes(l, "XG"))

C4_Reordering ==
    FindMny(Split(raw)) # 0
        => Split(originalContent) = ExpectedOrder(Split(raw), FindMny(Split(raw)))

(* C5: when no line of the input holds the marker, normalization returns   *)
(* the input unchanged.                                                    *)
C5_PassThrough == ~Includes(raw, "MNY") => originalContent = raw

C5_Witness ==
    /\ ~Includes(raw, "MNY")
    /\ Len(Split(raw)) >= 2
    /\ ~Includes(Split(raw)[1], "XG")
    /\ Includes(Split(raw)[2], "XG")
    /\ originalContent = raw

-----------------------------------------------------------------------------
\* The statements of a text, each named by the index of its ^FT.
\* A statement runs from its ^FT to the first ^FS after it.
InStatement(s, p, d) == d # 0 /\ \A j \in p..d : s[j].k # "FS"

\* ^FT, barcode command, ^FD payload ^FS
BarcodeStatements(s) ==
    {p \in 1..Len(s) : s[p].k = "FT" /\ IsKind(s, p + 1, "BE") /\ IsKind(s, p + 2, "FD")
                       /\ FirstAt(s, p + 3, {"FS"}) # 0}

\* ^FT, anything of the same statement, ^FD payload ^FS
GenericStatements(s) ==
    {p \in 1..Len(s) : s[p].k = "FT" /\ InStatement(s, p, FirstAt(s, p + 1, {"FD"}))
                       /\ FirstAt(s, FirstAt(s, p + 1, {"FD"}), {"FS"}) # 0}

StatementPayload(s, p) ==
    SubSeq(s, FirstAt(s, p + 1, {"FD"}) + 1, FirstAt(s, FirstAt(s, p + 1, {"FD"}), {"FS"}) - 1)

StatementText(s, p) == SubSeq(s, p, FirstAt(s, FirstAt(s, p + 1, {"FD"}), {"FS"}))

FieldPositions(vs, type) == {<<vs[i].x, vs[i].y>> : i \in {j \in 1..Len(vs) : vs[j].type = type}}

(* C6: no Text field stands at the position of a Barcode field; every      *)
(* barcode statement gives exactly one field, a Barcode, and no Text field *)
(* besides; every positioning+payload statement at a position no barcode   *)
(* claims gives exactly one Text field.                                    *)
TextSources(s, vs) ==
    {p \in GenericStatements(s) : <<s[p].x, s[p].y>> \notin FieldPositions(vs, "barcode")}

C6_Counts(s, vs) ==
    /\ FieldPositions(vs, "text") \cap FieldPositions(vs, "barcode") = {}
    /\ Len(OfType(vs, "barcode")) = Cardinality(BarcodeStatements(s))
    /\ Len(OfType(vs, "text")) = Cardinality(TextSources(s, vs))
    /\ \A i \in 1..Len(vs) :
          vs[i].type = "text" =>
              \E p \in TextSources(s, vs) :
                  /\ <<s[p].x, s[p].y>> = <<vs[i].x, vs[i].y>>
                  /\ StatementPayload(s, p) = vs[i].originalValue

C6_Arbitration == C6_Counts(originalContent, variables)

(* C7: the field list is the Barcode fields, then the Image fields, then   *)
(* the Text fields; within a type the fields ascend in (y, x), fields at   *)
(* one position staying in discovery order; the index of a field is its    *)
(* 0-based place in the list; extracting the same text again gives the     *)
(* same sequence of (type, position, originalValue).                       *)
TypeRank(type) == CASE type = "barcode" -> 0 [] type = "image" -> 1 [] type = "text" -> 2

SameKey(ps, key) == SelectSeq(ps, LAMBDA q : <<q[1], q[2], q[3]>> = key)

C7_Ordered(vs, found) ==
    /\ Len(vs) = Len(found)
    /\ \A i, j \in 1..Len(vs) :
          i < j =>
              /\ TypeRank(vs[i].type) <= TypeRank(vs[j].type)
              /\ vs[i].type = vs[j].type =>
                    \/ vs[i].y < vs[j].y
                    \/ vs[i].y = vs[j].y /\ vs[i].x <= vs[j].x
    /\ \A i \in 1..Len(vs) :
          /\ vs[i].index = i - 1
          /\ SameKey(Proj(vs), <<vs[i].type, vs[i].x, vs[i].y>>)
                = SameKey(Proj(found), <<vs[i].type, vs[i].x, vs[i].y>>)

C7_Ordering ==
    /\ C7_Ordered(variables, Discovered(originalContent, OneId(NumFields(originalContent))))
    /\ Proj(variables)
          = Proj(extractVariables(originalContent, OneId(NumFields(originalContent))))

\* Two fields of one type that sorting had to exchange.
C7_Witness ==
    /\ Len(variables) >= 2
    /\ Proj(variables) # Proj(Discovered(originalContent, OneId(NumFields(originalContent))))
    /\ \E i, j \in 1..Len(variables) :
          /\ i < j
          /\ variables[i].type = variables[j].type
          /\ variables[i].x > variables[j].x

-----------------------------------------------------------------------------
Regenerate2(r1) ==
    generateZplWithCurrentValues(r1, extractVariables(r1, OneId(NumFields(r1))))

C3_Idempotent == Pristine => Regenerate2(Regenerated) = Regenerated

\* A first regeneration that changed the text and still has fields to find.
C3_Witness ==
    /\ Pristine
    /\ Regenerated # <<>>
    /\ Regenerated # originalContent
    /\ NumFields(Regenerated) > 0
    /\ Regenerate2(Regenerated) = Regenerated

(* C9: every ^XG whose name is the original value of an Image field is     *)
(* emitted with the current value of that field, the empty string          *)
(* included; every other ^XG keeps its name; the positioning commands are  *)
(* untouched.                                                              *)
Captures(s, ms) == [i \in 1..Len(ms) |-> SubSeq(s, ms[i][1] + 1, ms[i][3])]

XgNames(s) == Captures(s, MatchAll("xg", s))

ImageValues(vs, name) ==
    {vs[i].value : i \in {j \in 1..Len(vs) : vs[j].type = "image" /\ vs[j].originalValue = name}}

Positioning(s) == SelectSeq(s, LAMBDA t : t.k \in {"FO", "FT"})

C9_Substituted(vs, src, out) ==
    /\ Len(out) = Len(src)
    /\ \A i \in 1..Len(src) :
          IF ImageValues(vs, src[i]) # {}
          THEN out[i] \in ImageValues(vs, src[i])
          ELSE out[i] = src[i]

C9_ImageSubstitution ==
    Len(variables) > 0
        => /\ C9_Substituted(variables, XgNames(originalContent), XgNames(Regenerated))
           /\ Positioning(Regenerated) = Positioning(originalContent)

-----------------------------------------------------------------------------
(* C10: a barcode statement of the normalized source whose payload is the  *)
(* original value of no Barcode field, a text statement whose payload is   *)
(* the original value of no Text field, and a text statement at the        *)
(* position of a barcode, each appear in the regenerated text exactly as   *)
(* in the source.                                                          *)
\* The barcode statements regeneration looks for: ^FH may precede ^FD.
RegenBarcodeStatements(s) ==
    {p \in 1..Len(s) : BarcodeRegenMatchAt(s, p) # <<>>}

TextStatements(s) == GenericStatements(s) \ RegenBarcodeStatements(s)

Unmatched(s, vs) ==
    {p \in RegenBarcodeStatements(s) : MapGet(vs, "barcode", StatementPayload(s, p)) = 0}
    \cup {p \in TextStatements(s) :
            \/ MapGet(vs, "text", StatementPayload(s, p)) = 0
            \/ <<s[p].x, s[p].y>> \in FieldPositions(vs, "barcode")}

C10_Kept(s, vs, out) == \A p \in Unmatched(s, vs) : Contains(out, StatementText(s, p))

C10_PassThrough == Len(variables) > 0 => C10_Kept(originalContent, variables, Regenerated)

(* C1: in a document whose fields have distinct original values within     *)
(* each type, after any edits the regenerated text carries the current     *)
(* value of every field: as the name of a ^XG for an Image field, as a     *)
(* remapped payload between ^FD and ^FS for a Barcode or Text field.       *)
DistinctOriginals(vs) ==
    \A i, j \in 1..Len(vs) :
        (i # j /\ vs[i].type = vs[j].type) => vs[i].originalValue # vs[j].originalValue

Carries(out, f) ==
    IF f.type = "image" THEN Contains(out, <<XG>> \o f.value \o <<COMMA>>)
    ELSE Contains(out, <<FD>> \o convertToCP850(f.value) \o <<FS>>)

C1_Attribution ==
    (Len(variables) > 0 /\ DistinctOriginals(variables))
        => \A i \in 1..Len(variables) : Carries(Regenerated, variables[i])

(* C8: an edit of the value of one field, or a toggle of its embedding     *)
(* flag, changes that attribute of that field and nothing else in the      *)
(* field list.                                                             *)
C8_EditStep ==
    \A i \in 1..Len(variables) :
      \A value \in Values \cup {toUpperCase(v) : v \in Values} \cup Catalogue :
        handleVariableChange(variables[i].id, value)
            => variables' = [variables EXCEPT ![i].value = value]

C8_ToggleStep ==
    \A i \in 1..Len(variables) : \A c \in BOOLEAN :
        (variables[i].type = "image" /\ onCheckboxChange(variables[i].id, c))
            => variables' = [variables EXCEPT ![i].isChecked = c]

C8_NonInterference == [][C8_EditStep /\ C8_ToggleStep]_vars

(***************************************************************************)
(* C11: the lookup by name returns the block of the store whose declared   *)
(* name is exactly the name asked for, ending before the next ~DG, ^XA or  *)
(* ^XZ; it never returns a block declared under another name, and returns  *)
(* empty text exactly when the store declares no block under that name.    *)
(***************************************************************************)
\* The blocks of a store: from each ~DG up to the next ~DG, ^XA or ^XZ.
BlockAt(defs, p) ==
    SubSeq(defs, p, First({e \in (p + 1)..(Len(defs) + 1) :
                             e > Len(defs) \/ defs[e].k \in {"DG", "XA", "XZ"}}) - 1)
StoreBlocks(defs) == {BlockAt(defs, p) : p \in {q \in 1..Len(defs) : defs[q].k = "DG"}}

\* ~DG<name>,...: the name a block is declared under
DeclaredName(block) ==
    SubSeq(block, 2, First({e \in 2..(Len(block) + 1) :
                              e > Len(block) \/ block[e].k = "COMMA"}) - 1)

LookupNames == {<<T("A")>>, <<T("B")>>, <<T("A"), T("B")>>}

C11_Exact(defs, name, found) ==
    /\ found # <<>> => found \in StoreBlocks(defs) /\ DeclaredName(found) = name
    /\ found = <<>> <=> ~\E b \in StoreBlocks(defs) : DeclaredName(b) = name

C11_ExactLookup ==
    \A name \in LookupNames :
        C11_Exact(imageDefinitions, name, getImageDefinitionByName(imageDefinitions, name))

(***************************************************************************)
(* C12: in an exported text, every Image field selected for embedding      *)
(* whose imageName is declared in the store has its block there, renamed   *)
(* to the field's current value, one per selected field even when two      *)
(* fields name the same store entry; unselected fields add no block.       *)
(***************************************************************************)
\* The block b of the store, declared under name, as it reads under value.
Renamed(b, name, value) == <<DG>> \o value \o SubSeq(b, Len(name) + 2, Len(b))

Embedded(file, v, defs) ==
    \A b \in StoreBlocks(defs) :
        DeclaredName(b) = v.imageName => Contains(file, Renamed(b, v.imageName, v.value))

NumBlocks(file) == Cardinality({p \in 1..Len(file) : file[p].k = "DG"})

C12_Exported(file, vs, defs) ==
    /\ \A i \in 1..Len(vs) :
          vs[i].type = "image" /\ vs[i].isChecked => Embedded(file, vs[i], defs)
    /\ NumBlocks(file) <= Len(CheckedImages(vs))

C12_Step ==
    Len(downloaded') > Len(downloaded)
        => C12_Exported(downloaded'[Len(downloaded')], variables, imageDefinitions)

C12_PerFieldEmbedding == [][C12_Step]_vars

(***************************************************************************)
(* C13: an export with one Image field selected whose block is found has   *)
(* exactly one definition block, renamed to the field's current value and  *)
(* placed right after the opening ^XA (before ^PRB^FS when that follows    *)
(* the ^XA); cleaning the exported text again, with the same fields and    *)
(* store, adds no second block and removes no label command.               *)
(***************************************************************************)
\* The block starts at the first token after the opening ^XA that is no line
\* break, and ^PRB follows it when ^PRB^FS followed the ^XA in the input.
PlacedAt(file, p, block, beforePRB) ==
    /\ p # 0
    /\ SubSeq(file, SkipSpace(file, p + 1), SkipSpace(file, p + 1) + Len(block) - 1) = block
    /\ beforePRB => IsKind(file, SkipSpace(file, SkipSpace(file, p + 1) + Len(block)), "PRB")

LabelCommands(text) == SelectSeq(text, LAMBDA t : t.k \notin {"DG", "T", "COMMA", "NL"})

C13_Single(zpl, file, v, found) ==
    /\ NumBlocks(file) = 1
    /\ PlacedAt(file, FirstAt(file, 1, {"XA"}), Renamed(found, v.imageName, v.value),
                Contains(zpl, <<XA, PRB, FS>>))

C13_Again(file, again) ==
    /\ NumBlocks(again) = NumBlocks(file)
    /\ LabelCommands(again) = LabelCommands(file)

C13_Case(checked) ==
    /\ Len(downloaded') > Len(downloaded)
    /\ Len(checked) = 1
    /\ getImageDefinitionByName(imageDefinitions, checked[1].imageName) # <<>>

C13_Step ==
    C13_Case(CheckedImages(variables)) =>
        /\ C13_Single(Regenerated, downloaded'[Len(downloaded')], CheckedImages(variables)[1],
                      getImageDefinitionByName(imageDefinitions,
                                               CheckedImages(variables)[1].imageName))
        /\ C13_Again(downloaded'[Len(downloaded')],
                     cleanZplForDownload(downloaded'[Len(downloaded')], variables,
                                         imageDefinitions))

C13_SingleInsertion == [][C13_Step]_vars

(***************************************************************************)
(* C14: each of the five cleanup steps is idempotent: applied to its own   *)
(* output it yields the same text as applied once, whatever the text.      *)
(***************************************************************************)
C14_Idempotent(n, once) == CleanStep(n, once) = once

C14_StepsIdempotent == \A n \in 1..5 : C14_Idempotent(n, CleanStep(n, cleaned))

(***************************************************************************)
(* C15: while the stored source is empty or the field list is empty,       *)
(* regeneration returns the empty text, no render request is issued, and a *)
(* click on the download button reports that there is nothing to process,  *)
(* downloads nothing and leaves fields, source and store as they were.     *)
(***************************************************************************)
NothingToGenerate == originalContent = <<>> \/ variables = <<>>

C15_Export ==
    /\ error' \notin {NoError, Failure}
    /\ downloaded' = downloaded
    /\ UNCHANGED <<variables, originalContent, imageDefinitions>>

C15_Step ==
    NothingToGenerate =>
        /\ Regenerated = <<>>
        /\ Len(requests') <= Len(requests)
        /\ attempts' > attempts => C15_Export

C15_NothingToGenerate == [][C15_Step]_vars

(***************************************************************************)
(* C16: at most one preview call is pending at any time; a field edit,     *)
(* configuration change or document load that arrives while a call is      *)
(* pending cancels it and schedules a new one, so the one request a burst  *)
(* of triggers ends in is built from the fields and configuration of the   *)
(* last trigger.                                                           *)
(***************************************************************************)
Current == Closure(originalContent, variables, imageDefinitions, config)

Trigger == Current' # Current

Rescheduled == timers' = {[id |-> timeoutRef', job |-> Current']}

C16_Step ==
    /\ Trigger /\ timers # {} => Rescheduled
    /\ Len(requests') > Len(requests) => requests'[Len(requests')] = Request(Current)

C16_Debounce == [](Cardinality(timers) <= 1) /\ [][C16_Step]_vars

(***************************************************************************)
(* C17: a failed render call leaves an error message and ends the loading  *)
(* state, with the field list, the stored source and the definition store  *)
(* as they were; with the error showing, a further trigger schedules a new *)
(* render and a click on the download button still produces a file.        *)
(***************************************************************************)
C17_Captured ==
    /\ error' # NoError
    /\ isLoading' = FALSE
    /\ UNCHANGED <<variables, originalContent, imageDefinitions>>

C17_Later ==
    /\ Trigger /\ originalContent' # <<>> => Rescheduled
    /\ attempts' > attempts /\ Regenerated # <<>> =>
           /\ Len(downloaded') > Len(downloaded)
           /\ downloaded'[Len(downloaded')] # <<>>

C17_Step ==
    /\ RespondFail => C17_Captured
    /\ error = Failure => C17_Later

C17_RenderFailure == [][C17_Step]_vars

\* After a failed render: the error shows, a new render is scheduled and a
\* file has been downloaded.
C17_Witness ==
    /\ error = Failure
    /\ isLoading = FALSE
    /\ requests = <<>>
    /\ timers # {}
    /\ downloaded # <<>>

(***************************************************************************)
(* C18: the fields of one extraction have pairwise distinct ids, and every *)
(* edit and flag toggle leaves each field the id extraction gave it.       *)
(***************************************************************************)
Ids(vs) == [i \in 1..Len(vs) |-> vs[i].id]

C18_Distinct == \A i, j \in 1..Len(variables) : i # j => variables[i].id # variables[j].id

C18_Stable == EditField \/ SelectField \/ ToggleEmbedding => Ids(variables') = Ids(variables)

C18_UniqueStableIds == []C18_Distinct /\ [][C18_Stable]_vars

(***************************************************************************)
(* C19: in every reachable state the field list, the normalized source and *)
(* the definition store derive from one loaded document (the fields from   *)
(* its normalized text, the store from its raw text), and a load replaces  *)
(* all three together: no field, edit or flag of the document before it    *)
(* remains.                                                                *)
(***************************************************************************)
SameDocument(doc, oc, vs, defs) ==
    /\ oc = reorderPrnContent(doc)
    /\ defs = extractImageDefinitions(doc)
    /\ Proj(vs) = Proj(extractVariables(oc, OneId(NumFields(oc))))

Fresh(vs) == \A i \in 1..Len(vs) : vs[i].value = vs[i].originalValue /\ ~vs[i].isChecked

C19_Derived == SameDocument(raw, originalContent, variables, imageDefinitions)

C19_LoadStep == LoadPreview => Fresh(variables')

C19_WholesaleRebuild == []C19_Derived /\ [][C19_LoadStep]_vars

\* A document with definitions is loaded and untouched, while the preview
\* still shows the edited text of the document loaded before it.
C19_Witness ==
    /\ imageDefinitions # <<>>
    /\ variables # <<>>
    /\ Fresh(variables)
    /\ previewUrl # <<>>
    /\ Contains(previewUrl[1], <<FD, T("X"), FS>>)

(***************************************************************************)
(* C20: the result of a render request is shown only if no request was     *)
(* issued after it; so whenever nothing is pending, nothing is in flight   *)
(* and no error shows, the preview is the picture of the request issued    *)
(* last, the one built from the current fields and configuration.          *)
(***************************************************************************)
C20_NotDelivered ==
    \A i \in 1..Len(requests) :
        ~requests[i].latest /\ requests' = Remove(requests, i) => previewUrl' = previewUrl

Quiescent == timers = {} /\ requests = <<>> /\ error = NoError /\ Regenerated # <<>>

C20_Shown == Quiescent => previewUrl = Picture(Request(Current))

C20_Superseded == []C20_Shown /\ [][C20_NotDelivered]_vars

(***************************************************************************)
(* C21: in the exported text every ^FD is immediately preceded by ^FH, and *)
(* a ^FD that already had the marker does not get a second one: the export *)
(* adds at most one ^FH for each ^FD that had none.                        *)
(***************************************************************************)
\* The ^FD at i has the marker: ^FH^FD, or ^FH with its indicator character.
Marked(s, i) ==
    \/ i > 1 /\ s[i - 1].k = "FH"
    \/ i > 2 /\ s[i - 1] = Indicator /\ s[i - 2].k = "FH"

Count(s, kind) == Cardinality({i \in 1..Len(s) : s[i].k = kind})

Unmarked(s) == Cardinality({i \in 1..Len(s) : s[i].k = "FD" /\ ~Marked(s, i)})

C21_Marked(text, exported) ==
    /\ \A i \in 1..Len(exported) :
          exported[i].k = "FD" => i > 1 /\ exported[i - 1].k = "FH"
    /\ Count(exported, "FH") <= Count(text, "FH") + Unmarked(text)

C21_HexMarker == C21_Marked(cleaned, cleanZplForDownload(cleaned, variables, imageDefinitions))

(***************************************************************************)
(* C22: the position of a field is that of a positioning command of its    *)
(* own statement: for an Image field the statement of its ^XG, for a Text  *)
(* or Barcode field the statement of its ^FD; a positioning command of a   *)
(* statement that a ^FS has closed never supplies it.                      *)
(***************************************************************************)
\* What the command at c carries: the name after ^XG, the payload after ^FD.
Carried(s, c) ==
    SubSeq(s, c + 1, FirstAt(s, c + 1, IF s[c].k = "XG" THEN {"COMMA"} ELSE {"FS"}) - 1)

OwnCommand(v) == IF v.type = "image" THEN "XG" ELSE "FD"

C22_Own(s, v) ==
    \E c \in 1..Len(s) : \E p \in 1..c :
        /\ s[c].k = OwnCommand(v)
        /\ Carried(s, c) = v.originalValue
        /\ s[p].k \in {"FO", "FT"}
        /\ InStatement(s, p, c)
        /\ <<s[p].x, s[p].y>> = <<v.x, v.y>>

C22_OwnPosition == \A i \in 1..Len(variables) : C22_Own(originalContent, variables[i])

(***************************************************************************)
(* C23: when two or more fields of one type share an original value, the   *)
(* regeneration binds every source statement of that type carrying the     *)
(* value to one of them, and all those statements are emitted with the     *)
(* current value of that one field.                                        *)
(***************************************************************************)
Sharing(vs, type, key) ==
    {i \in 1..Len(vs) : vs[i].type = type /\ vs[i].originalValue = key}

Shared(vs) ==
    {<<vs[i].type, vs[i].originalValue>> : i \in {j \in 1..Len(vs) :
        Cardinality(Sharing(vs, vs[j].type, vs[j].originalValue)) > 1}}

\* The type of the statement whose ^FD stands at d: a barcode statement is
\* ^FT ^BE ^FD; a text statement has a ^FT of its own, none of them at the
\* position of a Barcode field.
StatementType(s, d, vs) ==
    IF d > 2 /\ s[d - 1].k = "BE" /\ s[d - 2].k = "FT" THEN "barcode"
    ELSE IF /\ \E p \in 1..d : s[p].k = "FT" /\ InStatement(s, p, d)
            /\ \A p \in 1..d : s[p].k = "FT" /\ InStatement(s, p, d)
                   => <<s[p].x, s[p].y>> \notin FieldPositions(vs, "barcode")
    THEN "text"
    ELSE "none"

C23_Images(srcNames, outNames, key, value) ==
    /\ Len(outNames) = Len(srcNames)
    /\ \A i \in 1..Len(srcNames) : srcNames[i] = key => outNames[i] = value

C23_Payloads(src, ms, out, mo, vs, type, key, value) ==
    /\ Len(mo) = Len(ms)
    /\ \A i \in 1..Len(ms) :
          Payload(src, ms[i]) = key /\ StatementType(src, ms[i][1], vs) = type
              => Payload(out, mo[i]) = convertToCP850(value)

C23_BoundTo(src, out, vs, type, key, k) ==
    IF type = "image"
    THEN C23_Images(XgNames(src), XgNames(out), key, vs[k].value)
    ELSE C23_Payloads(src, MatchAll("payload", src), out, MatchAll("payload", out),
                      vs, type, key, vs[k].value)

C23_Bound(src, out, vs) ==
    \A tk \in Shared(vs) :
        \E k \in Sharing(vs, tk[1], tk[2]) : C23_BoundTo(src, out, vs, tk[1], tk[2], k)

C23_AmbiguousLookup == C23_Bound(originalContent, Regenerated, variables)

(***************************************************************************)
(* C24: every text statement the regeneration emits at a position no       *)
(* barcode holds carries ^FH between its positioning command and its ^FD;  *)
(* a statement that carried the marker is emitted with the markers it had, *)
(* and regenerating the regenerated text adds none.                        *)
(***************************************************************************)
\* The markers of the statement whose ^FD stands at d, before that ^FD.
Markers(s, d) == Cardinality({h \in 1..d : s[h].k = "FH" /\ InStatement(s, h, d)})

C24_Marked(out, ms, barcodePos) ==
    \A i \in 1..Len(ms) : PosOf(out, ms[i]) \notin barcodePos => Markers(out, ms[i][2]) >= 1

C24_Kept(src, fs, out, fo) ==
    /\ Len(fo) = Len(fs)
    /\ \A i \in 1..Len(fs) :
          Markers(src, fs[i][1]) >= 1 => Markers(out, fo[i][1]) = Markers(src, fs[i][1])

C24_Regenerated(src, out, again) ==
    /\ C24_Marked(out, MatchAll("allFd", out), BarcodePos(out))
    /\ C24_Kept(src, MatchAll("payload", src), out, MatchAll("payload", out))
    /\ Count(again, "FH") = Count(out, "FH")

C24_MarkerOnce ==
    Len(variables) > 0 =>
        C24_Regenerated(originalContent, Regenerated,
                        generateZplWithCurrentValues(Regenerated, variables))

(***************************************************************************)
(* C25: the stored source and the image-definition store are what the last *)
(* load made of the file read, and a step changes either of them only if   *)
(* it is a load; a step that exports (a click on the download button) or   *)
(* regenerates for a render (a request is sent) leaves the field list as   *)
(* it was.                                                                 *)
(***************************************************************************)
C25_Derived ==
    /\ originalContent = reorderPrnContent(raw)
    /\ imageDefinitions = extractImageDefinitions(raw)

C25_Step ==
    /\ (originalContent' # originalContent \/ imageDefinitions' # imageDefinitions)
          => LoadSession
    /\ (attempts' # attempts \/ Len(requests') > Len(requests))
          => /\ variables' = variables
             /\ originalContent' = originalContent
             /\ imageDefinitions' = imageDefinitions

C25_SourceFrame == []C25_Derived /\ [][C25_Step]_vars

\* an edited, embedded field, a changed configuration, a picture shown, a file exported
C25_Witness ==
    /\ attempts > 0
    /\ downloaded # <<>>
    /\ previewUrl # <<>>
    /\ config # DEFAULT_CONFIG
    /\ imageDefinitions # <<>>
    /\ \E i \in 1..Len(variables) :
           variables[i].isChecked /\ variables[i].value # variables[i].originalValue

(***************************************************************************)
(* C26: for a document whose fields are unedited, the fields extracted     *)
(* from the regenerated text (and from the exported text when no image is  *)
(* embedded) are as many as the fields listed, each of the type and at the *)
(* position of the listed one; a Barcode field is a Barcode field again.   *)
(***************************************************************************)
ExtractedAgain(text) == extractVariables(text, [i \in 1..NumFields(text) |-> i])

C26_Same(vs, ws) ==
    /\ Len(ws) = Len(vs)
    /\ \A i \in 1..Len(vs) :
          Len(ws) >= i =>
            /\ ws[i].type = vs[i].type
            /\ ws[i].x = vs[i].x
            /\ ws[i].y = vs[i].y

C26_ClassificationSurvives ==
    (Len(variables) > 0 /\ Fresh(variables)) =>
        /\ C26_Same(variables, ExtractedAgain(Regenerated))
        /\ C26_Same(variables,
                    ExtractedAgain(cleanZplForDownload(Regenerated, variables,
                                                       imageDefinitions)))

(***************************************************************************)
(* C27: reordering the reordered text returns it unchanged, and the        *)
(* reordered text has each line of the file read as many times as the file *)
(* has it, and no other line.                                              *)
(***************************************************************************)
Occurrences(lines, line) == Cardinality({i \in 1..Len(lines) : lines[i] = line})

SameLines(ls, ms) ==
    /\ Len(ls) = Len(ms)
    /\ \A i \in 1..Len(ls) : Occurrences(ms, ls[i]) = Occurrences(ls, ls[i])

C27_Idempotent(input, output) ==
    /\ reorderPrnContent(output) = output
    /\ SameLines(Split(input), Split(output))

C27_NormalizationIdempotent == C27_Idempotent(raw, originalContent)

(***************************************************************************)
(* C28: the loading state is on exactly when some render request has been *)
(* sent and its response has not come yet.                                 *)
(***************************************************************************)
C28_LoadingMatchesInFlight == isLoading <=> Len(requests) > 0

(***************************************************************************)
(* C29: once no file is being read, the stored file name, from which the   *)
(* download gets its name, is the name of the file whose text the stored   *)
(* source, field list and image definitions were made of.                  *)
(***************************************************************************)
SourceOf(file) ==
    /\ raw = file.text
    /\ SameDocument(file.text, originalContent, variables, imageDefinitions)

C29_FileNameMatches ==
    (reading = {} /\ fileName # "") =>
        \E file \in Files : file.name = fileName /\ SourceOf(file)

(***************************************************************************)
(* C30: with fields listed, a trigger (load, edit, configuration change)   *)
(* leaves one call pending, the pending call is the one for the current    *)
(* fields and configuration, and when it runs a request is sent whose body *)
(* is the regeneration of these; if the triggers stop with fields listed,  *)
(* then from some time on no call is pending.                              *)
(***************************************************************************)
HasFields == Len(variables) > 0

TriggerStep == LoadFollow \/ EditPreview \/ ChangeConfig

C30_Pending == (HasFields /\ timers # {}) => timers = {[id |-> timeoutRef, job |-> Current]}

C30_Step ==
    /\ (TriggerStep /\ Len(variables') > 0) => timers' # {}
    /\ (HasFields /\ timers # {} /\ timers' = {}) =>
          /\ Len(requests') = Len(requests) + 1
          /\ requests'[Len(requests')] = Request(Current)
          /\ Current' = Current

C30_Settles == (<>[][~TriggerStep]_vars /\ <>[]HasFields) => <>[](timers = {})

C30_PreviewFollows == []C30_Pending /\ [][C30_Step]_vars /\ C30_Settles

\* the request for the edited field is in flight and no call is pending
C30_Witness ==
    /\ HasFields
    /\ timers = {}
    /\ \E i \in 1..Len(variables) : variables[i].value # variables[i].originalValue
    /\ Len(requests) > 0
    /\ requests[Len(requests)] = Request(Current)

====
